---- MODULE Spec2Model ----
(***************************************************************************)
(* Model of src/src/generate.py: the adaptive retrieval-augmented          *)
(* generation controllers (SingleRAG, FixLengthRAG, TokenRAG, EntityRAG,   *)
(* AttnWeightRAG), the retrieval gateway BasicRAG.retrieve and the usage   *)
(* counter.                                                                *)
(*                                                                         *)
(* Python strings are modelled as sequences of one-character strings, so   *)
(* that strip, split, join and the substring test are computed the way     *)
(* Python computes them.  The language model, the tokenizer, the sentence  *)
(* segmenter and the retriever backends are external collaborators: the    *)
(* text a generation returns is drawn from GenTexts, the tokenizer counts  *)
(* whitespace-delimited units, and a backend answers a query with topk     *)
(* passages tagged with the index that served them.                        *)
(***************************************************************************)
EXTENDS Integers, Sequences, FiniteSets, TLC

(***************************************************************************)
(* Bounds and fixed inputs                                                 *)
(***************************************************************************)
\* self.generate_max_length: the token budget of the answer
generate_max_length == 3

\* self.retrieve_topk: passages asked of a backend per query
retrieve_topk == 1

\* ""
EmptyStr == << >>

\* self.fix_length: the token budget of one chunk of FixLengthRAG
fix_length == 10

\* self.retrieve_keep_top_k, when the configuration sets it
retrieve_keep_top_k == 1

\* the question handed to inference
question == <<"q">>

WS == {" ", "\n"}

(***************************************************************************)
(* Python string operations                                                *)
(***************************************************************************)
RECURSIVE lstrip(_)
lstrip(s) ==
  IF s = << >> THEN << >>
  ELSE IF Head(s) \in WS THEN lstrip(Tail(s)) ELSE s

RECURSIVE rstrip(_)
rstrip(s) ==
  IF s = << >> THEN << >>
  ELSE IF s[Len(s)] \in WS THEN rstrip(SubSeq(s, 1, Len(s) - 1)) ELSE s

\* str.strip()
strip(s) == rstrip(lstrip(s))

\* str.split(sep) for a one-character separator: never an empty list
RECURSIVE splitAcc(_, _, _, _)
splitAcc(s, sep, cur, acc) ==
  IF s = << >> THEN Append(acc, cur)
  ELSE IF Head(s) = sep THEN splitAcc(Tail(s), sep, << >>, Append(acc, cur))
  ELSE splitAcc(Tail(s), sep, Append(cur, Head(s)), acc)

split(s, sep) == splitAcc(s, sep, << >>, << >>)

\* sep.join(parts)
RECURSIVE join(_, _)
join(parts, sep) ==
  IF parts = << >> THEN << >>
  ELSE IF Len(parts) = 1 THEN parts[1]
  ELSE parts[1] \o sep \o join(Tail(parts), sep)

\* pat in s
contains(s, pat) ==
  \E i \in 0..(Len(s) - Len(pat)) : SubSeq(s, i + 1, i + Len(pat)) = pat

\* the parts of a list that are not empty: [s for s in li if len(s) > 0]
RECURSIVE nonempty(_)
nonempty(li) ==
  IF li = << >> THEN << >>
  ELSE IF Len(Head(li)) > 0 THEN <<Head(li)>> \o nonempty(Tail(li))
  ELSE nonempty(Tail(li))

\* str.split(): the whitespace-delimited units of a text
RECURSIVE unitsAcc(_, _, _)
unitsAcc(s, cur, acc) ==
  IF s = << >> THEN (IF cur = << >> THEN acc ELSE Append(acc, cur))
  ELSE IF Head(s) \in WS
       THEN unitsAcc(Tail(s), << >>, IF cur = << >> THEN acc ELSE Append(acc, cur))
       ELSE unitsAcc(Tail(s), Append(cur, Head(s)), acc)

units(s) == unitsAcc(s, << >>, << >>)

\* len(self.generator.tokenizer.encode(text)): one token per unit
tokens_count(s) == Len(units(s))

\* [sent.text for sent in nlp(text).sents]: one sentence per unit
sentences_of(s) == units(s)

Last(seq) == seq[Len(seq)]

(***************************************************************************)
(* Retrieval gateway: BasicRAG.retrieve and BasicRAG._retrieve             *)
(***************************************************************************)
\* the backend classes BasicRAG._retrieve dispatches on
SupportedRetrievers == {"BM25", "SGPT", "DatabricksVectorSearch"}

\* retriever.retrieve(queries=[query], topk=topk)[0]: the ranked passages
\* of one backend for one query
backend_docs(name, query, topk) == [i \in 1..topk |-> <<name, query, i>>]

\* An outcome of a call: the value returned (empty when the call raises), the
\* error raised ("" when none),
\* the increments of counter.retrieve, the backend queries issued in order
\* and the generation calls made.
Outcome(docs, err, inc, queried, gens) ==
  [docs |-> docs, err |-> err, inc |-> inc, queried |-> queried, gens |-> gens]

\* BasicRAG._retrieve(query, retriever, topk)
retrieve_one(query, retriever, topk) ==
  IF retriever.kind \in SupportedRetrievers
  THEN Outcome(backend_docs(retriever.name, query, topk), "", 1,
               <<[index |-> retriever.name, query |-> query]>>, 0)
  ELSE Outcome(<< >>, "NotImplementedError", 1, << >>, 0)

\* self.retrievers.keys()
retriever_names(retrievers) == {retrievers[i].name : i \in 1..Len(retrievers)}

\* self.retrievers[key]
retriever_at(retrievers, key) ==
  retrievers[CHOOSE i \in 1..Len(retrievers) : retrievers[i].name = key]

\* ret.split("-")[-1].strip(): the index a line of the selection names
selected_index(ret) == strip(Last(split(ret, "-")))

\* for ret in model_output.split("\n"): docs.extend(self._retrieve(...))
RECURSIVE fan_out(_, _, _, _, _)
fan_out(lines, query, retrievers, topk, acc) ==
  IF lines = << >> THEN acc
  ELSE LET key == selected_index(Head(lines)) IN
    IF key \notin retriever_names(retrievers)
    THEN Outcome(<< >>, "KeyError", acc.inc, acc.queried, acc.gens)
    ELSE LET one == retrieve_one(query, retriever_at(retrievers, key), topk) IN
      IF one.err # ""
      THEN Outcome(<< >>, one.err, acc.inc + one.inc, acc.queried, acc.gens)
      ELSE fan_out(Tail(lines), query, retrievers, topk,
                   Outcome(acc.docs \o one.docs, "", acc.inc + one.inc,
                           acc.queried \o one.queried, acc.gens))

\* self.multi_vector_index
multi_vector_index(retrievers) == Len(retrievers) # 1

\* BasicRAG.retrieve(query, topk); model_output is what the generator answers
\* to the index-selection prompt (read in multi-index mode only)
retrieve(query, topk, retrievers, model_output) ==
  IF ~multi_vector_index(retrievers)
  THEN LET one == retrieve_one(query, retrievers[1], topk) IN
       Outcome(one.docs, one.err, 1 + one.inc, one.queried, 0)
  ELSE fan_out(split(strip(model_output), "\n"), query, retrievers, topk,
               Outcome(<< >>, "", 1, << >>, 1))

(***************************************************************************)
(* Generation client and usage counter                                     *)
(***************************************************************************)
\* BasicGenerator.generate returns four values on both of its paths:
\* (text, generated_ids, logprobs, outputs) and (text, None, None, None)
generate(text, return_logprobs) ==
  IF return_logprobs THEN <<text, "generated_ids", "logprobs", "outputs">>
  ELSE <<text, "None", "None", "None">>

\* a, b, c = value: the assignment succeeds when the value holds exactly as
\* many items as there are targets, and raises ValueError otherwise
unpacks(value, targets) == Len(value) = targets

\* The names bound where SingleRAG.inference and BasicGenerator.generate_attn
\* read a name: their parameters, their locals and the module's globals
ModuleGlobals ==
  {"np", "logging", "spacy", "torch", "exp", "softmax", "BM25", "SGPT",
   "DatabricksVectorSearch", "AutoTokenizer", "AutoModelForCausalLM",
   "AutoConfig", "logger", "nlp"}

SingleRAG_inference_names ==
  ModuleGlobals \cup {"self", "question", "demo", "case", "subqueries", "docs",
                      "subquery", "prompt", "i", "doc", "text"}

generate_attn_names ==
  ModuleGlobals \cup {"self", "input_text", "max_length", "solver", "use_entropy",
                      "use_logprob", "text", "generated_ids", "logprobs",
                      "outputs", "range_", "tokens", "atten", "mean_atten",
                      "seqlist", "attns", "seqlogprobs", "tmp", "v",
                      "softmax_probs", "entropies", "seqentropies", "r", "i", "t"}

\* Counter.__init__
Counter_init ==
  [retrieve |-> 0, generate |-> 0, hallucinated |-> 0, token |-> 0, sentence |-> 0]

\* Counter.add_generate(text, tokenizer)
add_generate(c, text) ==
  [c EXCEPT !.generate = @ + 1,
            !.token = @ + tokens_count(text),
            !.sentence = @ + Len(sentences_of(text))]

(***************************************************************************)
(* Inputs of the external collaborators                                    *)
(***************************************************************************)
\* "the answer is": the phrase that ends the loop
SentinelPhrase == <<"t", "h", "e", " ", "a", "n", "s", "w", "e", "r", " ", "i", "s">>

\* texts a generation call may return
GenTexts ==
  { EmptyStr,
    <<"t", "h", "e", " ", "a", "n", "s", "w", "e", "r">>,
    <<"i", "s">> }

\* answers of the generator to the index-selection prompt
SelectorOutputs ==
  { <<"-", " ", "a", "\n", "-", " ", "b">>,
    <<"-", " ", "b", "\n", "-", " ", "a">>,
    <<"-", " ", "a", "-", "b", "\n", "-", " ", "b">>,
    <<"-", " ", "c">>,
    <<"a">>,
    EmptyStr }

\* answers of the generator to the query-decomposition prompt
DecomposeOutputs ==
  { <<"q">>, <<"-", " ", "u", "\n", "-", " ", "v">> }

\* retriever_configs: (name, retriever_type) in configuration order
RetrieverConfigs ==
  { << [name |-> <<"a">>, retriever_type |-> "BM25"] >>,
    << [name |-> <<"a">>, retriever_type |-> "SGPT"],
       [name |-> <<"b">>, retriever_type |-> "DatabricksVectorSearch"] >>,
    << [name |-> <<"a", "-", "b">>, retriever_type |-> "BM25"],
       [name |-> <<"b">>, retriever_type |-> "SGPT"] >>,
    << [name |-> <<"a">>, retriever_type |-> "FAISS"] >> }

Variants == {"SingleRAG", "FixLengthRAG", "TokenRAG", "EntityRAG", "AttnWeightRAG"}

\* query_formulation values tried, "keywords" being one no controller knows
QueryFormulations ==
  {"direct", "current", "current_wo_wrong", "forward_all", "last_sentence",
   "last_n_tokens", "real_words", "keywords"}

(***************************************************************************)
(* State                                                                   *)
(***************************************************************************)
VARIABLES
  args,               \* the configuration copied onto self by BasicRAG.__init__
  pc,                 \* where the inference call stands
  err,                \* the exception that ended the call ("" when none)
  text,               \* the accumulated answer
  old_len,            \* len(text) at the start of the iteration
  new_text,           \* the text of the iteration's first generation
  ptext,              \* the prefix the detector kept
  hallucination,      \* the detector's verdict
  curr_tokens,        \* the tokens of the flagged sentence
  curr_hit,           \* the hit mask over curr_tokens
  retrieve_question,  \* the query of the next retrieval
  docs,               \* the passages retrieved
  subqueries,         \* SingleRAG: the queries to retrieve for
  sub_done,           \* SingleRAG: how many of them have been retrieved for
  counter,            \* self.counter
  calls,              \* what the call has done, in order, since it started or,
                      \* in a loop, since the current iteration started:
                      \* "generate" (a generation call), "flagged" / "clean"
                      \* (the detector's verdict), "retrieve" (a
                      \* BasicRAG.retrieve call)
  last,               \* the last BasicRAG.retrieve call and its outcome
  iters,              \* loop iterations started
  det                 \* a call of a detector (modifier) or of keep_real_words
                      \* taken on its own: its arguments and, once it has
                      \* run, its outcome

vars ==
  <<args, pc, err, text, old_len, new_text, ptext, hallucination, curr_tokens,
    curr_hit, retrieve_question, docs, subqueries, sub_done, counter, calls, last,
    iters, det>>

\* BasicRAG._retriever_selector(retriever_type): the class of the object it
\* hands back; for an unknown type it returns (does not raise) a
\* NotImplementedError instance
retriever_selector(retriever_type) ==
  IF retriever_type \in SupportedRetrievers THEN retriever_type
  ELSE "NotImplementedError"

\* BasicRAG.__init__: self.retrievers
build_retrievers(configs) ==
  [i \in 1..Len(configs) |->
    [name |-> configs[i].name, kind |-> retriever_selector(configs[i].retriever_type)]]

\* no detector call is being looked at on its own
NoDetection == [stage |-> "none"]

NoCall ==
  [query |-> EmptyStr, model_output |-> EmptyStr, docs |-> << >>, err |-> "",
   queried |-> << >>, made |-> FALSE]

\* The configurations tried: every variant with its defaults, and each
\* option varied in turn against the defaults.
Defaults(variant) ==
  [variant |-> variant,
   method |-> IF variant = "FixLengthRAG" THEN "fix-length-retrieval" ELSE "attn_prob",
   query_formulation |-> IF variant = "AttnWeightRAG" THEN "forward_all" ELSE "direct",
   query_decomposition |-> FALSE,
   use_counter |-> TRUE,
   has_keep_top_k |-> TRUE,
   retrievers |-> build_retrievers(<< [name |-> <<"a">>, retriever_type |-> "BM25"] >>)]

Methods(variant) ==
  IF variant = "FixLengthRAG" THEN {"fix-length-retrieval", "fix-sentence-retrieval"}
  ELSE IF variant = "AttnWeightRAG" THEN {"dragin", "attn_prob"}
  ELSE {Defaults(variant).method}

Configurations ==
  UNION { { Defaults(v) }
          \cup { [Defaults(v) EXCEPT !.method = m] : m \in Methods(v) }
          \cup { [Defaults(v) EXCEPT !.query_formulation = q] : q \in QueryFormulations }
          \cup { [Defaults(v) EXCEPT !.retrievers = build_retrievers(c)] :
                   c \in RetrieverConfigs }
          \cup { [Defaults(v) EXCEPT !.use_counter = FALSE] }
          \cup { [Defaults(v) EXCEPT !.query_formulation = "last_n_tokens",
                                     !.has_keep_top_k = FALSE] }
          \cup { [Defaults(v) EXCEPT !.query_decomposition = d,
                                     !.retrievers = build_retrievers(c)] :
                   d \in {b \in BOOLEAN : b => v = "SingleRAG"}, c \in RetrieverConfigs }
          : v \in Variants }

Init ==
  /\ args \in Configurations
  /\ pc = "start"
  /\ err = ""
  /\ text = EmptyStr
  /\ old_len = 0
  /\ new_text = EmptyStr
  /\ ptext = EmptyStr
  /\ hallucination = FALSE
  /\ curr_tokens = << >>
  /\ curr_hit = << >>
  /\ retrieve_question = question
  /\ docs = << >>
  /\ subqueries = << >>
  /\ sub_done = 0
  /\ counter = Counter_init
  /\ calls = << >>
  /\ last = NoCall
  /\ iters = 0
  /\ det = NoDetection

\* what the generator may answer to the index-selection prompt; no prompt is
\* sent in single-index mode
Selections == IF multi_vector_index(args.retrievers) THEN SelectorOutputs ELSE {EmptyStr}

\* the record of a BasicRAG.retrieve call
Called(query, model_output, r) ==
  [query |-> query, model_output |-> model_output, docs |-> r.docs, err |-> r.err,
   queried |-> r.queried, made |-> TRUE]

\* the backend calls of a BasicRAG.retrieve call, in order
retrieve_calls(r) == <<"retrieve">> \o (IF r.gens = 1 THEN <<"generate">> ELSE << >>)

(***************************************************************************)
(* The stop check shared by the three loops                                *)
(***************************************************************************)
\* Variants of the stop check with one of its tests dropped or weakened, as
\* a slip in the condition would leave it
stop_condition_strict(t, old) ==
  \/ tokens_count(t) > generate_max_length
  \/ Len(t) < old
  \/ contains(t, SentinelPhrase)

stop_condition_no_sentinel(t, old) ==
  \/ tokens_count(t) > generate_max_length
  \/ Len(t) <= old

stop_condition_no_budget(t, old) ==
  \/ Len(t) <= old
  \/ contains(t, SentinelPhrase)

\* tokens_count > self.generate_max_length or len(text) <= old_len
\*   or "the answer is" in text
stop_condition(t, old) ==
  \/ tokens_count(t) > generate_max_length
  \/ Len(t) <= old
  \/ contains(t, SentinelPhrase)

Raise(e) == pc' = "error" /\ err' = e

(***************************************************************************)
(* SingleRAG.inference                                                     *)
(***************************************************************************)
\* assert self.query_formulation == "direct", then the choice between query
\* decomposition and one retrieval for the question
SingleRAG_start ==
  /\ pc = "start"
  /\ args.variant = "SingleRAG"
  /\ IF args.query_formulation # "direct"
     THEN Raise("AssertionError") /\ UNCHANGED subqueries
     ELSE IF args.query_decomposition
     THEN pc' = "decompose" /\ UNCHANGED <<err, subqueries>>
     ELSE pc' = "single_retrieve" /\ subqueries' = <<question>> /\ UNCHANGED err
  /\ UNCHANGED <<det, args, text, old_len, new_text, ptext, hallucination, curr_tokens,
                 curr_hit, retrieve_question, docs, sub_done, counter, calls, last,
                 iters>>

\* BasicRAG.decompose_query: one generation, returned split into lines
SingleRAG_decompose ==
  /\ pc = "decompose"
  /\ \E out \in DecomposeOutputs :
       LET result == generate(out, FALSE) IN
       /\ calls' = Append(calls, "generate")
       /\ IF unpacks(result, 4)
          THEN /\ subqueries' = split(result[1], "\n")
               /\ pc' = "single_retrieve"
               /\ UNCHANGED err
          ELSE Raise("ValueError") /\ UNCHANGED subqueries
  /\ UNCHANGED <<det, args, text, old_len, new_text, ptext, hallucination, curr_tokens,
                 curr_hit, retrieve_question, docs, sub_done, counter, last, iters>>

\* The for loop left after its first pass
after_subquery_first_only(done, total) == "single_generate"

\* where SingleRAG.inference goes after a retrieval: to the next subquery of
\* the for loop, or on to the prompt and the generation of the answer
after_subquery(done, total) ==
  IF done < total THEN "single_retrieve" ELSE "single_generate"

\* docs.extend(self.retrieve(subquery.strip(), topk=self.retrieve_topk)) for
\* the next subquery, or docs = self.retrieve(question, topk=self.retrieve_topk)
SingleRAG_retrieve ==
  /\ pc = "single_retrieve"
  /\ \E out \in Selections :
       LET subquery == subqueries[sub_done + 1]
           query == IF args.query_decomposition THEN strip(subquery) ELSE subquery
           r == retrieve(query, retrieve_topk, args.retrievers, out)
       IN /\ counter' = [counter EXCEPT !.retrieve = @ + r.inc]
          /\ calls' = calls \o retrieve_calls(r)
          /\ last' = Called(query, out, r)
          /\ IF r.err # ""
             THEN Raise(r.err) /\ UNCHANGED <<docs, sub_done>>
             ELSE /\ docs' = docs \o r.docs
                  /\ sub_done' = sub_done + 1
                  /\ pc' = after_subquery(sub_done + 1, Len(subqueries))
                  /\ UNCHANGED err
  /\ UNCHANGED <<det, args, text, old_len, new_text, ptext, hallucination, curr_tokens,
                 curr_hit, retrieve_question, subqueries, iters>>

\* the generation of the answer: the call's arguments are evaluated first, and
\* enable_thinking is read as a bare name
SingleRAG_generate ==
  /\ pc = "single_generate"
  /\ IF "enable_thinking" \notin SingleRAG_inference_names
     THEN Raise("NameError") /\ UNCHANGED <<text, counter, calls>>
     ELSE \E out \in GenTexts :
            LET result == generate(out, FALSE) IN
            /\ calls' = Append(calls, "generate")
            /\ IF unpacks(result, 4)
               THEN /\ text' = result[1]
                    /\ counter' = IF args.use_counter THEN add_generate(counter, result[1])
                                  ELSE counter
                    /\ pc' = "done"
                    /\ UNCHANGED err
               ELSE Raise("ValueError") /\ UNCHANGED <<text, counter>>
  /\ UNCHANGED <<det, args, old_len, new_text, ptext, hallucination, curr_tokens,
                 curr_hit, retrieve_question, docs, subqueries, sub_done, last, iters>>

(***************************************************************************)
(* FixLengthRAG.inference                                                  *)
(***************************************************************************)
\* assert self.query_formulation == "direct"; text = ""; retrieve_question = question
FixLengthRAG_start ==
  /\ pc = "start"
  /\ args.variant = "FixLengthRAG"
  /\ IF args.query_formulation # "direct"
     THEN Raise("AssertionError")
     ELSE pc' = "fix_iteration" /\ UNCHANGED err
  /\ text' = EmptyStr
  /\ retrieve_question' = question
  /\ UNCHANGED <<det, args, old_len, new_text, ptext, hallucination, curr_tokens,
                 curr_hit, docs, subqueries, sub_done, counter, calls, last, iters>>

\* What one pass of the loop body leaves behind once the retrieval r has
\* returned and the generation has answered new: the three-target assignment
\* of generate's value comes first, then the append and the stop check.
fix_body(r, new) ==
  LET result == generate(new, FALSE)
      c0 == [counter EXCEPT !.retrieve = @ + r.inc]
      c1 == IF args.use_counter THEN add_generate(c0, result[1]) ELSE c0
      stripped == strip(result[1])
      sents == sentences_of(stripped)
      grown == IF args.method = "fix-length-retrieval"
               THEN strip(text) \o <<" ">> \o stripped
               ELSE strip(text) \o <<" ">> \o sents[1]
      query == IF args.method = "fix-length-retrieval" THEN stripped ELSE sents[1]
  IN IF ~unpacks(result, 3)
     THEN [pc |-> "error", err |-> "ValueError", text |-> text, counter |-> c0,
           new_text |-> new_text, retrieve_question |-> retrieve_question]
     ELSE IF args.method # "fix-length-retrieval" /\ Len(sents) = 0
     THEN [pc |-> "done", err |-> "", text |-> text, counter |-> c1,
           new_text |-> result[1], retrieve_question |-> retrieve_question]
     ELSE [pc |-> IF stop_condition(grown, Len(text)) THEN "done" ELSE "fix_iteration",
           err |-> "", text |-> grown, counter |-> c1,
           new_text |-> result[1], retrieve_question |-> query]

\* One pass of the while loop: old_len, the unconditional retrieval, the
\* generation of the next chunk, the append and the stop check.
FixLengthRAG_iteration ==
  /\ pc = "fix_iteration"
  /\ old_len' = Len(text)
  /\ iters' = iters + 1
  /\ \E out \in Selections :
       LET r == retrieve(retrieve_question, retrieve_topk, args.retrievers, out) IN
       /\ last' = Called(retrieve_question, out, r)
       /\ IF r.err # ""
          THEN /\ Raise(r.err)
               /\ counter' = [counter EXCEPT !.retrieve = @ + r.inc]
               /\ calls' = retrieve_calls(r)
               /\ UNCHANGED <<text, new_text, retrieve_question, docs>>
          ELSE \E new \in (IF unpacks(generate(EmptyStr, FALSE), 3)
                           THEN GenTexts ELSE {EmptyStr}) :
                 LET b == fix_body(r, new) IN
                 /\ docs' = r.docs
                 /\ calls' = retrieve_calls(r) \o <<"generate">>
                 /\ pc' = b.pc
                 /\ err' = b.err
                 /\ text' = b.text
                 /\ counter' = b.counter
                 /\ new_text' = b.new_text
                 /\ retrieve_question' = b.retrieve_question
  /\ UNCHANGED <<det, args, ptext, hallucination, curr_tokens, curr_hit, subqueries,
                 sub_done>>

(***************************************************************************)
(* Detector verdicts as the loops see them                                 *)
(***************************************************************************)
\* "[xxx]"
Marker == <<"[", "x", "x", "x", "]">>

\* s.replace(old, new)
RECURSIVE replace(_, _, _)
replace(s, old, new) ==
  IF Len(s) < Len(old) \/ Len(old) = 0 THEN s
  ELSE IF SubSeq(s, 1, Len(old)) = old
       THEN new \o replace(SubSeq(s, Len(old) + 1, Len(s)), old, new)
       ELSE <<Head(s)>> \o replace(Tail(s), old, new)

\* The verdicts a detector can return for a generated text.  The confidence
\* signal (log-probabilities, attention, entropy) is the model's, so every
\* sentence may or may not cross the threshold: either no sentence is flagged
\* and the text comes back whole, or sentence sid is the first flagged one,
\* the sentences before it are the kept prefix and its tokens are the flagged
\* span.  A text without a sentence is never flagged.
verdict(h) == IF h THEN "flagged" ELSE "clean"

\* The branch taken whatever the verdict
after_verdict_always_retrieve(h) == "retrieve"

\* if not hallucination: the append branch, else: retrieval and regeneration
after_verdict(h) == IF h THEN "retrieve" ELSE "append"

modifier_outcomes(t) ==
  LET sentences == sentences_of(t) IN
  { [hallucination |-> FALSE, ptext |-> t, curr |-> EmptyStr,
     curr_tokens |-> << >>, curr_hit |-> << >>] }
  \cup
  { [hallucination |-> TRUE,
     ptext |-> IF sid = 1 THEN EmptyStr
               ELSE join(SubSeq(sentences, 1, sid - 1), <<" ">>),
     curr |-> Marker,
     curr_tokens |-> <<sentences[sid]>>,
     curr_hit |-> <<1>>] : sid \in 1..Len(sentences) }

(***************************************************************************)
(* TokenRAG.inference, which EntityRAG.inference delegates to              *)
(***************************************************************************)
\* text = ""
TokenRAG_start ==
  /\ pc = "start"
  /\ args.variant \in {"TokenRAG", "EntityRAG"}
  /\ text' = EmptyStr
  /\ pc' = "token_iteration"
  /\ UNCHANGED <<det, args, err, old_len, new_text, ptext, hallucination, curr_tokens,
                 curr_hit, retrieve_question, docs, subqueries, sub_done, counter,
                 calls, last, iters>>

\* What one pass of the loop body leaves behind when the first generation
\* answers new, the detector returns o, the generator answers out to an index
\* selection and re to the regeneration.
token_body(new, o, out, re) ==
  LET first == generate(new, TRUE)
      c1 == IF args.use_counter THEN add_generate(counter, new) ELSE counter
      query == IF args.query_formulation = "direct"
               THEN replace(o.curr, Marker, EmptyStr)
               ELSE join(nonempty(<<question, text, o.ptext>>), <<" ">>)
      r == retrieve(query, retrieve_topk, args.retrievers, out)
      c2 == [c1 EXCEPT !.retrieve = @ + r.inc]
      second == generate(re, FALSE)
      c3 == IF args.use_counter
            THEN [add_generate(c2, re) EXCEPT !.hallucinated = @ + 1] ELSE c2
      appended == strip(text) \o <<" ">> \o strip(new)
      regenerated == strip(text) \o <<" ">> \o strip(o.ptext) \o <<" ">> \o strip(re)
      base == [pc |-> "error", err |-> "", text |-> text, counter |-> counter,
               calls |-> <<"generate">>, last |-> last, docs |-> docs,
               new_text |-> new_text, ptext |-> ptext,
               hallucination |-> hallucination,
               retrieve_question |-> retrieve_question]
      seen == [base EXCEPT !.counter = c1, !.new_text = new, !.ptext = o.ptext,
                           !.hallucination = o.hallucination,
                           !.calls = Append(base.calls, verdict(o.hallucination))]
      asked == [seen EXCEPT !.counter = c2, !.retrieve_question = query,
                            !.last = Called(query, out, r),
                            !.calls = seen.calls \o retrieve_calls(r)]
  IN IF ~unpacks(first, 3) THEN [base EXCEPT !.err = "ValueError"]
     ELSE IF after_verdict(o.hallucination) = "append"
     THEN [seen EXCEPT !.text = appended,
                       !.pc = IF stop_condition(appended, Len(text)) THEN "done"
                              ELSE "token_iteration"]
     ELSE IF args.query_formulation \notin {"direct", "forward_all"}
     THEN [seen EXCEPT !.err = "TypeError"]
     ELSE IF r.err # "" THEN [asked EXCEPT !.err = r.err]
     ELSE IF ~unpacks(second, 3)
     THEN [asked EXCEPT !.err = "ValueError", !.docs = r.docs,
                        !.calls = Append(asked.calls, "generate")]
     ELSE [asked EXCEPT !.counter = c3, !.docs = r.docs, !.text = regenerated,
                        !.calls = Append(asked.calls, "generate"),
                        !.pc = IF stop_condition(regenerated, Len(text)) THEN "done"
                               ELSE "token_iteration"]

\* One pass of the while loop: generation with log-probabilities, detection,
\* append or retrieval and regeneration, stop check.
TokenRAG_iteration ==
  /\ pc = "token_iteration"
  /\ old_len' = Len(text)
  /\ iters' = iters + 1
  /\ \E new \in (IF unpacks(generate(EmptyStr, TRUE), 3) THEN GenTexts ELSE {EmptyStr}) :
     \E o \in modifier_outcomes(new) :
     \E out \in (IF o.hallucination THEN Selections ELSE {EmptyStr}) :
     \E re \in (IF o.hallucination THEN GenTexts ELSE {EmptyStr}) :
       LET b == token_body(new, o, out, re) IN
       /\ pc' = b.pc
       /\ err' = b.err
       /\ text' = b.text
       /\ counter' = b.counter
       /\ calls' = b.calls
       /\ last' = b.last
       /\ docs' = b.docs
       /\ new_text' = b.new_text
       /\ ptext' = b.ptext
       /\ hallucination' = b.hallucination
       /\ retrieve_question' = b.retrieve_question
  /\ UNCHANGED <<det, args, curr_tokens, curr_hit, subqueries, sub_done>>

(***************************************************************************)
(* Query reformulation of AttnWeightRAG                                    *)
(***************************************************************************)
\* BasicRAG.get_last_sentence(text)
get_last_sentence(t) ==
  LET sentences == nonempty([i \in 1..Len(sentences_of(t)) |-> strip(sentences_of(t)[i])])
  IN IF Len(sentences) > 0 THEN Last(sentences) ELSE EmptyStr

\* fetch_last_n_tokens(text, num): the text itself when it has no more than
\* num tokens, else its last num tokens joined by blanks
fetch_last_n_tokens(t, num) ==
  LET tokens == units(t) IN
  IF num >= Len(tokens) THEN t
  ELSE join(SubSeq(tokens, Len(tokens) - num + 1, Len(tokens)), <<" ">>)

\* the words the part-of-speech tagger does not count as content words
FunctionWords == { <<"t", "h", "e">>, <<"i", "s">> }

\* match(token): some content word occurs in the token
is_real_word(tok) == tok \notin FunctionWords

\* forward_attns[i]: the attention the hit positions pay to position i of the
\* forward context, as the model reports it
forward_attention(i) == (3 * i) % 4

\* forward_attns: the attention the hit tokens pay to each token of
\* all_text, summed and divided by their number; a fraction <<n, d>>, and
\* <<0, 0>>, not a number, when no token is hit.  attns[j][i] is the
\* attention the j-th current token pays to the i-th token.
forward_attns(n, chit, attns) ==
  LET hits == { j \in 1..Len(chit) : chit[j] = 1 }
      RECURSIVE paid(_, _)
      paid(i, j) == IF j > Len(chit) THEN 0
                    ELSE (IF j \in hits THEN attns[j][i] ELSE 0) + paid(i, j + 1)
  IN [i \in 1..n |-> <<paid(i, 1), Cardinality(hits)>>]

\* a > b for two entries of forward_attns; False when they are not numbers
attention_above(a, b) == a[2] # 0 /\ b[2] # 0 /\ a[1] * b[2] > b[1] * a[2]

\* real_pairs taken in text order, the first top_k of them: what is kept
\* when the sort by attention is left out
first_candidates(real_pairs, forward, top_k) ==
  { i \in real_pairs : Cardinality({ j \in real_pairs : j < i }) < top_k }

\* sorted(real_pairs, key=lambda x: x[0], reverse=True)[:top_k]: the top_k
\* positions of highest forward attention (sorted is stable, so among equal
\* ones the earlier position goes first)
top_candidates(real_pairs, forward, top_k) ==
  LET before(i) == { j \in real_pairs :
                       \/ attention_above(forward[j + 1], forward[i + 1])
                       \/ ~attention_above(forward[i + 1], forward[j + 1]) /\ j < i }
  IN { i \in real_pairs : Cardinality(before(i)) < top_k }

\* what the model's attention is taken to be inside an inference call:
\* every current token pays forward_attention(i) to position i
reported_attention(n, ctokens) ==
  [j \in 1..Len(ctokens) |-> [i \in 1..n |-> forward_attention(i - 1)]]

\* self.retrieve_keep_top_k / self.retrieve_keep_ratio as configured
KeepTopK == [kind |-> "top_k", k |-> retrieve_keep_top_k]

\* AttnWeightRAG.keep_real_words(prev_text, curr_tokens, curr_hit), attns
\* being the attention the model reports and keep the configured limit:
\* among the tokens of the forward context that are content words and not
\* hit positions of the flagged span, the top_k with the highest forward
\* attention, back in text order
keep_real_words(prev_text, ctokens, chit, attns, keep) ==
  LET all_text == prev_text \o <<" ">> \o join(ctokens, <<" ">>)
      tokens == units(all_text)
      curr_st == Len(tokens) - Len(ctokens)
      forward == forward_attns(Len(tokens), chit, attns)
      real_pairs == { i \in 0..(Len(tokens) - 1) :
                        /\ ~(i >= curr_st /\ chit[i - curr_st + 1] = 1)
                        /\ is_real_word(tokens[i + 1]) }
      n == Cardinality(real_pairs)
      top_k == CASE keep.kind = "top_k" -> IF keep.k < n THEN keep.k ELSE n
                 [] keep.kind = "ratio" -> (n * keep.num) \div keep.den
                 [] OTHER -> -1
      kept == top_candidates(real_pairs, forward, top_k)
      RECURSIVE in_order(_)
      in_order(i) ==
        IF i >= Len(tokens) THEN << >>
        ELSE (IF i \in kept THEN <<i>> ELSE << >>) \o in_order(i + 1)
  IN IF keep.kind \notin {"top_k", "ratio"}
     THEN [err |-> "UnboundLocalError", query |-> EmptyStr, kept |-> << >>,
           real_pairs |-> real_pairs, forward |-> forward, tokens |-> tokens,
           curr_st |-> curr_st, top_k |-> top_k]
     ELSE [err |-> "",
           query |-> join([k \in 1..Len(in_order(0)) |-> tokens[in_order(0)[k] + 1]],
                          <<" ">>),
           kept |-> in_order(0), real_pairs |-> real_pairs, forward |-> forward,
           tokens |-> tokens, curr_st |-> curr_st, top_k |-> top_k]

\* The if/elif chain on self.query_formulation: the query, or the error the
\* chain ends in
formulate_query(mode, has_top_k, answer, prefix, ctokens, chit) ==
  LET forward_all == join(nonempty(<<question, answer, prefix>>), <<" ">>)
      ok(q) == [query |-> q, err |-> ""]
  IN CASE mode = "current" -> ok(join(ctokens, <<" ">>))
       [] mode = "current_wo_wrong" ->
            ok(join([i \in 1..Len(ctokens) |->
                       IF chit[i] = 0 THEN ctokens[i] ELSE EmptyStr], <<" ">>))
       [] mode = "forward_all" -> ok(forward_all)
       [] mode = "last_sentence" -> ok(get_last_sentence(forward_all))
       [] mode = "last_n_tokens" ->
            IF has_top_k THEN ok(fetch_last_n_tokens(forward_all, retrieve_keep_top_k))
            ELSE [query |-> EmptyStr, err |-> "AssertionError"]
       [] mode = "real_words" ->
            LET prev_text == question \o <<" ">> \o answer \o <<" ">> \o prefix
                n == Len(units(prev_text \o <<" ">> \o join(ctokens, <<" ">>)))
                kept == keep_real_words(prev_text, ctokens, chit,
                                        reported_attention(n, ctokens),
                                        IF has_top_k THEN KeepTopK
                                        ELSE [kind |-> "none"])
            IN [query |-> kept.query, err |-> kept.err]
       [] OTHER -> [query |-> EmptyStr, err |-> "NotImplementedError"]

(***************************************************************************)
(* AttnWeightRAG.inference                                                 *)
(***************************************************************************)
\* text = ""
AttnWeightRAG_start ==
  /\ pc = "start"
  /\ args.variant = "AttnWeightRAG"
  /\ text' = EmptyStr
  /\ pc' = "generate"
  /\ UNCHANGED <<det, args, err, old_len, new_text, ptext, hallucination, curr_tokens,
                 curr_hit, retrieve_question, docs, subqueries, sub_done, counter,
                 calls, last, iters>>

\* old_len = len(text), then BasicGenerator.generate_attn: one generation with
\* log-probabilities; with use_entropy (method "dragin") the entropy block
\* reads the name scores.  Then weight and counter.add_generate.
AttnWeightRAG_generate ==
  /\ pc = "generate"
  /\ old_len' = Len(text)
  /\ iters' = iters + 1
  /\ calls' = <<"generate">>
  /\ IF args.method = "dragin" /\ "scores" \notin generate_attn_names
     THEN Raise("NameError") /\ UNCHANGED <<new_text, counter>>
     ELSE \E new \in GenTexts :
            LET result == generate(new, TRUE) IN
            IF unpacks(result, 4)
            THEN /\ new_text' = result[1]
                 /\ counter' = IF args.use_counter THEN add_generate(counter, result[1])
                               ELSE counter
                 /\ pc' = "detect"
                 /\ UNCHANGED err
            ELSE Raise("ValueError") /\ UNCHANGED <<new_text, counter>>
  /\ UNCHANGED <<det, args, text, ptext, hallucination, curr_tokens, curr_hit,
                 retrieve_question, docs, subqueries, sub_done, last>>

\* hallucination, ptext, curr_tokens, curr_hit = self.modifier(...)
AttnWeightRAG_detect ==
  /\ pc = "detect"
  /\ \E o \in modifier_outcomes(new_text) :
       /\ hallucination' = o.hallucination
       /\ ptext' = o.ptext
       /\ curr_tokens' = o.curr_tokens
       /\ curr_hit' = o.curr_hit
       /\ calls' = Append(calls, verdict(o.hallucination))
       /\ pc' = after_verdict(o.hallucination)
  /\ UNCHANGED <<det, args, err, text, old_len, new_text, retrieve_question, docs,
                 subqueries, sub_done, counter, last, iters>>

\* text = text.strip() + " " + new_text.strip()
AttnWeightRAG_append ==
  /\ pc = "append"
  /\ text' = strip(text) \o <<" ">> \o strip(new_text)
  /\ pc' = "check_stop"
  /\ UNCHANGED <<det, args, err, old_len, new_text, ptext, hallucination, curr_tokens,
                 curr_hit, retrieve_question, docs, subqueries, sub_done, counter,
                 calls, last, iters>>

\* the query is formulated, then docs = self.retrieve(retrieve_question, ...)
AttnWeightRAG_retrieve ==
  /\ pc = "retrieve"
  /\ LET f == formulate_query(args.query_formulation, args.has_keep_top_k, text,
                              ptext, curr_tokens, curr_hit)
     IN IF f.err # ""
        THEN Raise(f.err) /\ UNCHANGED <<retrieve_question, docs, counter, calls, last>>
        ELSE \E out \in Selections :
               LET r == retrieve(f.query, retrieve_topk, args.retrievers, out) IN
               /\ retrieve_question' = f.query
               /\ counter' = [counter EXCEPT !.retrieve = @ + r.inc]
               /\ calls' = calls \o retrieve_calls(r)
               /\ last' = Called(f.query, out, r)
               /\ IF r.err # ""
                  THEN Raise(r.err) /\ UNCHANGED docs
                  ELSE docs' = r.docs /\ pc' = "regenerate" /\ UNCHANGED err
  /\ UNCHANGED <<det, args, text, old_len, new_text, ptext, hallucination, curr_tokens,
                 curr_hit, subqueries, sub_done, iters>>

\* the second generation, the counter, and
\* text = " ".join(s for s in [text.strip(), ptext.strip(), new_text.strip()]
\*                 if len(s) > 0)
AttnWeightRAG_regenerate ==
  /\ pc = "regenerate"
  /\ calls' = Append(calls, "generate")
  /\ \E re \in GenTexts :
       LET result == generate(re, FALSE) IN
       IF unpacks(result, 4)
       THEN /\ counter' = IF args.use_counter
                          THEN [add_generate(counter, result[1])
                                  EXCEPT !.hallucinated = @ + 1]
                          ELSE counter
            /\ text' = join(nonempty(<<strip(text), strip(ptext), strip(result[1])>>),
                            <<" ">>)
            /\ pc' = "check_stop"
            /\ UNCHANGED err
       ELSE Raise("ValueError") /\ UNCHANGED <<text, counter>>
  /\ UNCHANGED <<det, args, old_len, new_text, ptext, hallucination, curr_tokens,
                 curr_hit, retrieve_question, docs, subqueries, sub_done, last, iters>>

\* the stop check at the end of the loop body: break and return text, or go
\* round again
AttnWeightRAG_check_stop ==
  /\ pc = "check_stop"
  /\ pc' = IF stop_condition(text, old_len) THEN "done" ELSE "generate"
  /\ UNCHANGED <<det, args, err, text, old_len, new_text, ptext, hallucination,
                 curr_tokens, curr_hit, retrieve_question, docs, subqueries,
                 sub_done, counter, calls, last, iters>>

Next ==
  \/ SingleRAG_start
  \/ SingleRAG_decompose
  \/ SingleRAG_retrieve
  \/ SingleRAG_generate
  \/ FixLengthRAG_start
  \/ FixLengthRAG_iteration
  \/ TokenRAG_start
  \/ TokenRAG_iteration
  \/ AttnWeightRAG_start
  \/ AttnWeightRAG_generate
  \/ AttnWeightRAG_detect
  \/ AttnWeightRAG_append
  \/ AttnWeightRAG_retrieve
  \/ AttnWeightRAG_regenerate
  \/ AttnWeightRAG_check_stop

Spec == Init /\ [][Next]_vars

Terminated == pc \in {"done", "error"}

\* the guards of the actions of Next: some action can be taken
CanStep ==
  \/ pc = "start" /\ args.variant \in Variants
  \/ pc = "single_retrieve" /\ sub_done < Len(subqueries) /\ Selections # {}
  \/ pc \in {"decompose", "single_generate"}
  \/ pc \in {"fix_iteration", "token_iteration"} /\ Selections # {}
  \/ pc \in {"generate", "detect", "append", "regenerate", "check_stop"}
  \/ pc = "retrieve" /\ Selections # {}

(***************************************************************************)
(* Properties                                                              *)
(***************************************************************************)
RECURSIVE count(_, _)
count(seq, e) ==
  IF seq = << >> THEN 0
  ELSE (IF Head(seq) = e THEN 1 ELSE 0) + count(Tail(seq), e)

\* the first position of e in seq, 0 when it is not there
first_index(seq, e) ==
  IF \E i \in 1..Len(seq) : seq[i] = e
  THEN CHOOSE i \in 1..Len(seq) : seq[i] = e /\ \A j \in 1..(i - 1) : seq[j] # e
  ELSE 0

Looping == args.variant \in {"FixLengthRAG", "TokenRAG", "EntityRAG", "AttnWeightRAG"}
Detecting == args.variant \in {"TokenRAG", "EntityRAG", "AttnWeightRAG"}

\* the loop stands between two iterations or has returned
IterationOver ==
  /\ iters > 0
  /\ pc \in {"generate", "token_iteration", "fix_iteration", "done"}

\* C1: a looping controller always ends.  It starts at most
\* 2 * generate_max_length + 2 iterations, it can always take a step until it
\* has returned or raised, and it goes round again only after an iteration
\* that made the answer longer and left it within generate_max_length tokens.
C1_LoopTerminates ==
  Looping =>
    /\ iters <= 2 * generate_max_length + 2
    /\ (~Terminated => CanStep)
    /\ (IterationOver /\ pc # "done" =>
          /\ Len(text) > old_len
          /\ tokens_count(text) <= generate_max_length)

\* C1 witness: AttnWeightRAG returns in its third or a later iteration,
\* because the answer did not grow
C1_Witness ==
  /\ args.variant = "AttnWeightRAG"
  /\ pc = "done"
  /\ iters >= 3
  /\ Len(text) <= old_len
  /\ tokens_count(text) <= generate_max_length
  /\ ~contains(text, SentinelPhrase)

\* C2: append and regeneration both lead to the stop check; the stop check
\* leaves the loop exactly when the answer has more than generate_max_length
\* tokens, or is no longer than at the start of the iteration, or contains
\* "the answer is"; otherwise the controller generates again.  The loop is left
\* with a result nowhere else.
C2_StopCheck ==
  [][ LET stop == \/ tokens_count(text') > generate_max_length
                  \/ Len(text') <= old_len'
                  \/ contains(text', SentinelPhrase)
      IN /\ (pc \in {"append", "regenerate"} /\ pc' # "error" => pc' = "check_stop")
         /\ (pc = "check_stop" =>
               /\ text' = text /\ old_len' = old_len
               /\ (pc' = "done" <=> stop)
               /\ (pc' = "generate" <=> ~stop))
         /\ (pc = "token_iteration" /\ pc' # "error" =>
               /\ old_len' = Len(text)
               /\ (pc' = "done" <=> stop)
               /\ (pc' = "token_iteration" <=> ~stop))
         /\ (pc = "fix_iteration" /\ pc' = "fix_iteration" => old_len' = Len(text) /\ ~stop)
         /\ (args.variant = "AttnWeightRAG" /\ pc # "done" /\ pc' = "done"
               => pc = "check_stop")
    ]_vars

\* C2 witness: the loop is left on the phrase alone, the answer having grown
\* within the token budget
C2_Witness ==
  /\ args.variant = "AttnWeightRAG"
  /\ pc = "done"
  /\ contains(text, SentinelPhrase)
  /\ tokens_count(text) <= generate_max_length
  /\ Len(text) > old_len

\* C3 as stated: at the end of every iteration the answer is at least as long
\* as at its start
C3_NeverShrinks ==
  (Detecting /\ (pc = "check_stop" \/ IterationOver)) => Len(text) >= old_len

\* C3 amended: every iteration but the last makes the answer strictly longer,
\* on the append branch and on the retrieval branch alike
C3_GrowsUntilLast ==
  [][ (Detecting /\ pc \in {"check_stop", "token_iteration"}
         /\ pc' \in {"generate", "token_iteration"})
        => Len(text') > old_len' ]_vars

\* C3 witness: a retrieval-and-regeneration iteration after which the loop goes on
C3_Witness ==
  /\ args.variant = "AttnWeightRAG"
  /\ pc = "generate"
  /\ iters >= 2
  /\ hallucination
  /\ Len(text) > old_len

\* the configuration names only retrievers, query formulations and options
\* the variant knows
ValidConfiguration ==
  /\ \A i \in 1..Len(args.retrievers) : args.retrievers[i].kind \in SupportedRetrievers
  /\ args.variant \in {"SingleRAG", "FixLengthRAG"} => args.query_formulation = "direct"
  /\ args.variant \in {"TokenRAG", "EntityRAG"}
       => args.query_formulation \in {"direct", "forward_all"}
  /\ args.variant = "AttnWeightRAG"
       => /\ args.query_formulation \in
               {"current", "current_wo_wrong", "forward_all", "last_sentence",
                "last_n_tokens", "real_words"}
          /\ args.has_keep_top_k

\* C4: under a valid configuration inference ends in no error of its own
\* making: the only error left is the KeyError of an index selection that names
\* no configured index
C4_ReturnsAnswer ==
  ValidConfiguration => err \in {"", "KeyError"}

\* C5: within an iteration at most one retrieval is issued; it follows the
\* generation and a "flagged" verdict; a "clean" verdict is followed by no
\* retrieval and no second generation; after a "flagged" verdict the retrieval
\* is issued unless formulating the query raised, and an iteration that runs
\* to its end after a "flagged" verdict has the retrieval followed by the
\* regeneration.
C5_RetrievalOnlyOnDetection ==
  Detecting =>
    LET nr == count(calls, "retrieve")
        ng == count(calls, "generate")
        flagged == first_index(calls, "flagged") > 0
        clean == first_index(calls, "clean") > 0
    IN /\ nr <= 1
       /\ ~(flagged /\ clean)
       /\ (nr = 1 => /\ flagged
                     /\ first_index(calls, "generate") < first_index(calls, "flagged")
                     /\ first_index(calls, "flagged") < first_index(calls, "retrieve"))
       /\ (clean => nr = 0 /\ ng = 1)
       /\ (flagged /\ pc # "retrieve" =>
             \/ nr = 1
             \/ pc = "error" /\ err \in {"NotImplementedError", "AssertionError", "TypeError"})
       /\ (flagged /\ (pc = "check_stop" \/ IterationOver) =>
             /\ nr = 1
             /\ ng >= 2
             /\ calls[Len(calls)] = "generate"
             /\ first_index(calls, "retrieve") < Len(calls))

\* C5 witness: an iteration of AttnWeightRAG with a flagged sentence reaches
\* the stop check with its one retrieval made
C5_Witness ==
  /\ args.variant = "AttnWeightRAG"
  /\ pc = "check_stop"
  /\ hallucination
  /\ count(calls, "retrieve") = 1
  /\ iters >= 2

\* C6 as stated: when SingleRAG comes to generate the answer it has issued
\* exactly one retrieval request
C6_ExactlyOneRetrieval ==
  (args.variant = "SingleRAG" /\ pc = "single_generate")
    => count(calls, "retrieve") = 1

\* C6 amended: all retrievals come before the generation of the answer; without
\* query decomposition there is exactly one, issued first; with it the
\* decomposition generation comes first and one retrieval request follows per
\* line of its output, of which there is at least one.
C6_RetrievalsUpFront ==
  args.variant = "SingleRAG" =>
    /\ count(calls, "retrieve") <= Len(subqueries)
    /\ (pc = "single_generate" =>
          /\ Len(subqueries) >= 1
          /\ count(calls, "retrieve") = Len(subqueries)
          /\ (~args.query_decomposition => Len(subqueries) = 1 /\ calls[1] = "retrieve")
          /\ (args.query_decomposition => calls[1] = "generate" /\ calls[2] = "retrieve"))

\* C6 witness: a decomposition into two subqueries, both retrieved for
C6_Witness ==
  /\ args.variant = "SingleRAG"
  /\ args.query_decomposition
  /\ pc = "single_generate"
  /\ Len(subqueries) = 2
  /\ count(calls, "retrieve") = 2

\* C7: FixLengthRAG in "fix-length-retrieval" mode, with a valid configuration
\* and retrievals that succeed, ends by returning after exactly
\* ceil(generate_max_length / fix_length) cycles, the answer being over the
\* token budget
C7_CeilCycles ==
  (/\ args.variant = "FixLengthRAG"
   /\ args.method = "fix-length-retrieval"
   /\ ValidConfiguration
   /\ Terminated
   /\ err # "KeyError")
    => /\ pc = "done"
       /\ iters = (generate_max_length + fix_length - 1) \div fix_length
       /\ tokens_count(text) > generate_max_length

\* C8: TokenRAG / EntityRAG inference with no sentence ever flagged ends like
\* one generate-then-stop call: it returns, after one generation and no
\* retrieval, the hallucinated counter untouched, the text of that generation
C8_SingleGeneration ==
  (args.variant \in {"TokenRAG", "EntityRAG"} /\ Terminated /\ ~hallucination)
    => /\ pc = "done"
       /\ count(calls, "generate") = 1
       /\ count(calls, "retrieve") = 0
       /\ counter.hallucinated = 0
       /\ text = new_text

\* the selection "- n1\n- n2..." naming the indices of a list
bullets(names) ==
  join([i \in 1..Len(names) |-> <<"-", " ">> \o names[i]], <<"\n">>)

\* the lists of one or two configured index names
ConfiguredLists ==
  LET names == retriever_names(args.retrievers) IN
  { <<n>> : n \in names } \cup { <<n, m>> : n \in names, m \in names }

RECURSIVE docs_of(_, _)
docs_of(names, query) ==
  IF names = << >> THEN << >>
  ELSE backend_docs(Head(names), query, retrieve_topk) \o docs_of(Tail(names), query)

\* C9: in multi-index mode, a selection that is a bullet list of configured
\* index names has every listed index queried once with the query, in listed
\* order, and the results concatenated in that order
C9_FanOutInOrder ==
  (last.made /\ multi_vector_index(args.retrievers) /\ ValidConfiguration) =>
    \A names \in ConfiguredLists :
      last.model_output = bullets(names) =>
        /\ last.err = ""
        /\ last.queried = [i \in 1..Len(names) |-> [index |-> names[i], query |-> last.query]]
        /\ last.docs = docs_of(names, last.query)

\* C10: in multi-index mode, a selection with a line that is not a bullet
\* naming a configured index ends BasicRAG.retrieve in a NotImplementedError,
\* no documents being returned
C10_UnknownIndexRaises ==
  (last.made /\ multi_vector_index(args.retrievers) /\ ValidConfiguration) =>
    LET lines == split(strip(last.model_output), "\n")
        named(line) == \E n \in retriever_names(args.retrievers) : line = <<"-", " ">> \o n
    IN (\E i \in 1..Len(lines) : ~named(lines[i]))
         => last.err = "NotImplementedError" /\ last.docs = << >>

\* a retriever kind _retriever_selector does not know, or a query formulation
\* the variant's inference does not know
InvalidConfiguration ==
  \/ \E i \in 1..Len(args.retrievers) : args.retrievers[i].kind \notin SupportedRetrievers
  \/ args.variant \in {"SingleRAG", "FixLengthRAG"} /\ args.query_formulation # "direct"
  \/ args.variant \in {"TokenRAG", "EntityRAG"}
       /\ args.query_formulation \notin {"direct", "forward_all"}
  \/ args.variant = "AttnWeightRAG"
       /\ args.query_formulation \notin
            {"current", "current_wo_wrong", "forward_all", "last_sentence",
             "last_n_tokens", "real_words"}

\* C11: under a configuration with an unrecognized retriever kind or an
\* unrecognized query formulation, no generation call and no retrieval call
\* is ever made and no answer is ever returned
C11_FailFast ==
  InvalidConfiguration => calls = << >> /\ ~last.made /\ pc # "done"

\* C18: in single-index mode counter.retrieve has increased by one per
\* BasicRAG.retrieve call (SingleRAG.inference, whose calls are all logged)
C18_CountsOneForOne ==
  (args.variant = "SingleRAG" /\ ~multi_vector_index(args.retrievers))
    => counter.retrieve = count(calls, "retrieve")

(***************************************************************************)
(* The detectors taken on their own                                        *)
(*                                                                         *)
(* A detector call is modelled as a function of its arguments, computed    *)
(* statement by statement as the code computes it.  Indices are Python's:  *)
(* 0-based, str.find answers -1 when there is no occurrence, and a         *)
(* negative index counts from the end.  Numbers are fractions <<n, d>>     *)
(* with d > 0, and <<0, 0>> is the nan numpy answers for the mean of       *)
(* nothing.  A log-probability v is <= 0 and the uncertainty 1 - exp(v)    *)
(* is modelled by -v: 0 at v = 0 and growing as v falls.                   *)
(***************************************************************************)
\* the most tokens of a generation
MaxTokens == 3

\* the most entities the recognizer finds in a sentence
MaxEntities == 1

\* self.hallucination_threshold, on the scale of the uncertainties
hallucination_threshold == 1

\* the token strings the tokenizer may hand back
Vocabulary == { <<"a">>, <<"b">>, <<"a", "b">> }

\* the log-probabilities of a token
LogProbs == {-2, 0}

\* self.sentence_solver: the recognized names and one that is not
Solvers == {"avg", "max", "min", "median"}

\* self.entity_solver: the recognized names and one that is not
EntitySolvers == {"avg", "max", "min", "first", "median"}

\* the generated texts given to TokenRAG.modifier
DetectorTexts ==
  { << >>, <<"a", "b">>, <<"a", "b", "b">>, <<"a", "b", "b", "b">>,
    <<"a", " ", "b">>, <<"a", "b", " ", "b">>, <<" ", "a">> }

\* what a generation hands to the detector besides the text: up to
\* MaxTokens tokens, each with its log-probability
Generated == UNION { [1..n -> Vocabulary \X LogProbs] : n \in 0..MaxTokens }

\* Python's clamping of a slice bound to 0..n
slice_bound(i, n) ==
  IF i < 0 THEN (IF i + n < 0 THEN 0 ELSE i + n) ELSE (IF i > n THEN n ELSE i)

\* s[lo:hi]
pyslice(s, lo, hi) ==
  SubSeq(s, slice_bound(lo, Len(s)) + 1, slice_bound(hi, Len(s)))

\* s[lo:]
from(s, lo) == pyslice(s, lo, Len(s))

\* s.find(sub)
find(s, sub) ==
  LET hits == { i \in 0..(Len(s) - Len(sub)) : SubSeq(s, i + 1, i + Len(sub)) = sub }
  IN IF hits = {} THEN -1 ELSE CHOOSE i \in hits : \A j \in hits : i <= j

nan == <<0, 0>>

is_nan(p) == p[2] = 0

\* a > b; a comparison with nan is False
greater(a, b) == ~is_nan(a) /\ ~is_nan(b) /\ a[1] * b[2] > b[1] * a[2]

plus(a, b) ==
  IF is_nan(a) \/ is_nan(b) THEN nan ELSE <<a[1] * b[2] + b[1] * a[2], a[2] * b[2]>>

\* 1 - exp(v)
uncertainty(v) == IF is_nan(v) THEN nan ELSE <<0 - v[1], v[2]>>

has_nan(x) == \E i \in 1..Len(x) : is_nan(x[i])

RECURSIVE total(_)
total(x) == IF x = << >> THEN <<0, 1>> ELSE plus(Head(x), total(Tail(x)))

\* np.mean(x): nan for an empty array
mean(x) ==
  IF x = << >> \/ has_nan(x) THEN nan ELSE <<total(x)[1], total(x)[2] * Len(x)>>

\* np.max(x) of a non-empty array: nan when it holds one
maximum(x) ==
  IF has_nan(x) THEN nan
  ELSE x[CHOOSE i \in 1..Len(x) : \A j \in 1..Len(x) : ~greater(x[j], x[i])]

\* np.min(x) of a non-empty array
minimum(x) ==
  IF has_nan(x) THEN nan
  ELSE x[CHOOSE i \in 1..Len(x) : \A j \in 1..Len(x) : ~greater(x[i], x[j])]

\* np.max and np.min raise ValueError on an empty array
solver_raises(solver, x) == solver \in {"max", "min"} /\ x = << >>

\* a reduction that takes a name it does not know for "max"
solve_unknown_as_max(solver, x, with_first) ==
  CASE solver = "avg" -> mean(x)
    [] solver = "min" -> minimum(x)
    [] solver = "first" /\ with_first -> IF Len(x) > 0 THEN x[1] ELSE <<0, 1>>
    [] OTHER -> IF x = << >> THEN <<0, 1>> ELSE maximum(x)

\* {"avg": np.mean, "max": np.max, "min": np.min,
\*  "first": lambda x: x[0] if len(x) > 0 else 0}.get(solver, lambda x: 0)(x)
\* the sentence reduction has no "first"
solve(solver, x, with_first) ==
  CASE solver = "avg" -> mean(x)
    [] solver = "max" -> maximum(x)
    [] solver = "min" -> minimum(x)
    [] solver = "first" /\ with_first -> IF Len(x) > 0 THEN x[1] ELSE <<0, 1>>
    [] OTHER -> <<0, 1>>

\* p > self.hallucination_threshold
exceeds(p) == greater(p, <<hallucination_threshold, 1>>)

\* sentences = [sent.text.strip() for sent in nlp(text).sents], the empty
\* ones dropped
stripped_sentences(t) ==
  nonempty([i \in 1..Len(sentences_of(t)) |-> strip(sentences_of(t)[i])])

\* TokenRAG.modifier, the while loop aligning one sentence: tr when the loop
\* ends, whether it ended by the break, and for every token matched the
\* scan position it was searched from, the offset in the sentence it was
\* found at and its length
RECURSIVE align(_, _, _, _, _)
align(sent, tokens, tr, pos, matched) ==
  IF tr >= Len(tokens) THEN [tr |-> tr, matched |-> matched, broke |-> FALSE]
  ELSE LET apr == find(from(sent, pos), tokens[tr + 1]) IN
       IF apr = -1 THEN [tr |-> tr, matched |-> matched, broke |-> TRUE]
       ELSE align(sent, tokens, tr + 1, apr + Len(tokens[tr + 1]),
                  Append(matched, [pos |-> pos, at |-> pos + apr,
                                   len |-> Len(tokens[tr + 1])]))

\* The for loop replacing by "[xxx]" the tokens (TokenRAG) or entities
\* (EntityRAG) over the threshold: curr when the loop ends, the offsets the
\* markers were put at, the scan positions then, and whether find had
\* answered -1 for one of the items
RECURSIVE replace_over(_, _, _, _, _)
replace_over(curr, pos, probs, items, acc) ==
  IF probs = << >> \/ items = << >> THEN [acc EXCEPT !.curr = curr]
  ELSE LET tok == Head(items)
           found == find(from(curr, pos), tok)
           apr == found + pos
       IN IF exceeds(Head(probs))
          THEN replace_over(pyslice(curr, 0, apr) \o Marker \o from(curr, apr + Len(tok)),
                            apr + Len(Marker), Tail(probs), Tail(items),
                            [acc EXCEPT !.markers = Append(@, apr),
                                        !.pos = Append(@, pos),
                                        !.missed = @ \/ found = -1])
          ELSE replace_over(curr, apr + Len(tok), Tail(probs), Tail(items),
                            [acc EXCEPT !.missed = @ \/ found = -1])

\* what a detector hands back, or the exception it ends in, with what it
\* did on the way: the sentence flagged (-1 when none), the alignment of
\* each sentence (from token tid on), the markers put and the lookups that
\* found nothing
Verdict(e, prev, curr, h, sid, scans, r, lost) ==
  [err |-> e, prev |-> prev, curr |-> curr, hallucination |-> h, sid |-> sid,
   scans |-> scans, markers |-> r.markers, pos |-> r.pos, missed |-> r.missed,
   lost |-> lost]

NoReplacement == [curr |-> EmptyStr, markers |-> << >>, pos |-> << >>, missed |-> FALSE]

\* prev = "" if sid == 0 else " ".join(sentences[:sid])
kept_prefix(sentences, sid) ==
  IF sid = 0 THEN EmptyStr ELSE join(SubSeq(sentences, 1, sid), <<" ">>)

\* TokenRAG.modifier from sentence sid on (counted from 0), tid being the
\* first token not yet given to a sentence
RECURSIVE token_sentences(_, _, _, _, _, _, _, _)
token_sentences(t, sentences, sid, tid, tokens, logprobs, solver, scans) ==
  IF sid >= Len(sentences)
  THEN Verdict("", t, "None", FALSE, -1, scans, NoReplacement, FALSE)
  ELSE LET sent == sentences[sid + 1]
           a == align(sent, tokens, tid, 0, << >>)
           window == pyslice(logprobs, tid, a.tr + 1)
           probs == [i \in 1..Len(window) |-> uncertainty(<<window[i], 1>>)]
           here == Append(scans, [tid |-> tid, tr |-> a.tr, matched |-> a.matched,
                                  broke |-> a.broke])
       IN IF solver_raises(solver, probs)
          THEN Verdict("ValueError", EmptyStr, "None", FALSE, sid, here, NoReplacement, FALSE)
          ELSE IF exceeds(solve(solver, probs, FALSE))
          THEN LET r == replace_over(sent, 0, probs, pyslice(tokens, tid, a.tr + 1),
                                     [NoReplacement EXCEPT !.curr = sent])
               IN Verdict("", kept_prefix(sentences, sid), r.curr, TRUE, sid, here, r, FALSE)
          ELSE token_sentences(t, sentences, sid + 1, a.tr + 1, tokens, logprobs,
                               solver, here)

\* the call TokenRAG.modifier(text, tokens, logprobs) of a generation
token_call(t, g, solver) ==
  [stage |-> "called", detector |-> "TokenRAG", text |-> t,
   tokens |-> [i \in 1..Len(g) |-> g[i][1]],
   logprobs |-> [i \in 1..Len(g) |-> g[i][2]], sentence_solver |-> solver]

\* the variables of an inference call, which a detector call leaves alone
inference_vars ==
  <<args, pc, err, text, old_len, new_text, ptext, hallucination, curr_tokens,
    curr_hit, retrieve_question, docs, subqueries, sub_done, counter, calls, last,
    iters>>

\* TokenRAG.modifier(text, tokens, logprobs)
TokenRAG_modifier ==
  /\ det.stage = "called"
  /\ det.detector = "TokenRAG"
  /\ det' = [stage |-> "returned", detector |-> det.detector, call |-> det,
             out |-> token_sentences(det.text, stripped_sentences(det.text), 0, 0,
                                     det.tokens, det.logprobs, det.sentence_solver,
                                     << >>)]
  /\ UNCHANGED inference_vars

\* an inference call that has not started, for a detector call looked at on
\* its own
NoInference ==
  /\ args = Defaults("TokenRAG")
  /\ pc = "detector"
  /\ err = ""
  /\ text = EmptyStr
  /\ old_len = 0
  /\ new_text = EmptyStr
  /\ ptext = EmptyStr
  /\ hallucination = FALSE
  /\ curr_tokens = << >>
  /\ curr_hit = << >>
  /\ retrieve_question = question
  /\ docs = << >>
  /\ subqueries = << >>
  /\ sub_done = 0
  /\ counter = Counter_init
  /\ calls = << >>
  /\ last = NoCall
  /\ iters = 0

TokenInit ==
  /\ NoInference
  /\ \E t \in DetectorTexts, g \in Generated, s \in Solvers : det = token_call(t, g, s)

TokenNext == TokenRAG_modifier

TokenSpec == TokenInit /\ [][TokenNext]_vars

(***************************************************************************)
(* Properties of TokenRAG.modifier                                         *)
(***************************************************************************)
Returned == det.stage = "returned"

\* the tokens are the text's: sentence by sentence, consecutive tokens
\* spell the sentence
RECURSIVE tokens_spell(_, _)
tokens_spell(sentences, tokens) ==
  IF sentences = << >> THEN tokens = << >>
  ELSE \E k \in 1..Len(tokens) :
         /\ join(SubSeq(tokens, 1, k), EmptyStr) = Head(sentences)
         /\ tokens_spell(Tail(sentences), SubSeq(tokens, k + 1, Len(tokens)))

Aligned == tokens_spell(stripped_sentences(det.call.text), det.call.tokens)

\* every token's uncertainty is below the threshold
Quiet ==
  \A i \in 1..Len(det.call.logprobs) :
    greater(<<hallucination_threshold, 1>>, uncertainty(<<det.call.logprobs[i], 1>>))

\* how many times pat occurs in s
occurrences(s, pat) ==
  Cardinality({ i \in 0..(Len(s) - Len(pat)) : SubSeq(s, i + 1, i + Len(pat)) = pat })

\* C13: when every token's uncertainty is below the threshold,
\* TokenRAG.modifier returns, without raising, hallucinated = false with the
\* original text and no flagged span
C13_NoSignal ==
  (Returned /\ det.detector = "TokenRAG" /\ Aligned /\ Quiet)
    => /\ det.out.err = ""
       /\ ~det.out.hallucination
       /\ det.out.prev = det.call.text
       /\ det.out.curr = "None"

\* C16: when TokenRAG.modifier flags a sentence, the markers in the returned
\* sentence are as many as the sentence's tokens over the threshold, each
\* was put where its token was found, at or after the scan position (so
\* past the markers put before), and the kept prefix is the space-join of
\* the sentences before the flagged one
C16_MarkersReplaceOverThreshold ==
  (Returned /\ det.detector = "TokenRAG" /\ Aligned /\ det.out.hallucination) =>
    LET scan == det.out.scans[det.out.sid + 1]
        over == { i \in 1..Len(scan.matched) :
                    exceeds(uncertainty(<<det.call.logprobs[scan.tid + i], 1>>)) }
        sentences == stripped_sentences(det.call.text)
    IN /\ occurrences(det.out.curr, Marker) = Cardinality(over)
       /\ Len(det.out.markers) = Cardinality(over)
       /\ ~det.out.missed
       /\ \A i \in 1..Len(det.out.markers) : det.out.markers[i] >= det.out.pos[i]
       /\ det.out.prev = join(SubSeq(sentences, 1, det.out.sid), <<" ">>)

\* C17: while TokenRAG.modifier aligns a sentence the scan position never
\* decreases, each token is searched for at or after the end of the token
\* matched before it, and no token is matched before the match of an
\* earlier token
C17_MonotonicMatching ==
  (Returned /\ det.detector = "TokenRAG" /\ Aligned) =>
    \A k \in 1..Len(det.out.scans) :
      LET m == det.out.scans[k].matched IN
      \A i \in 1..(Len(m) - 1) :
        /\ m[i + 1].pos >= m[i].pos
        /\ m[i + 1].pos >= m[i].at + m[i].len
        /\ m[i + 1].at >= m[i].at

(***************************************************************************)
(* EntityRAG.modifier                                                      *)
(***************************************************************************)
\* the generated texts given to EntityRAG.modifier
EntityTexts ==
  { <<"a", "b">>, <<"a", " ", "b">>, <<"a", "b", " ", "b">>, <<" ", "a">> }

\* [ent.text for ent in nlp(sent).ents]: what the recognizer may find in a
\* sentence, up to MaxEntities spans of it, one after the other
entities_in(sent) ==
  LET spans == { <<i, j>> \in (1..Len(sent)) \X (1..Len(sent)) : i <= j }
      picks == { q \in UNION { [1..n -> spans] : n \in 0..MaxEntities } :
                   \A k \in 1..(Len(q) - 1) : q[k][2] < q[k + 1][1] }
  IN { [k \in 1..Len(q) |-> SubSeq(sent, q[k][1], q[k][2])] : q \in picks }

\* entity: the entities of every sentence
RECURSIVE entity_lists(_)
entity_lists(sentences) ==
  IF sentences = << >> THEN { << >> }
  ELSE { <<e>> \o rest : e \in entities_in(Head(sentences)),
                         rest \in entity_lists(Tail(sentences)) }

\* li[i] for a Python list: the element, or IndexError
in_range(li, i) == i < Len(li) /\ 0 - Len(li) <= i

element(li, i) == IF i < 0 THEN li[i + Len(li) + 1] ELSE li[i + 1]

\* the loop "for tid, tok in enumerate(tokens)" filling belonging, from
\* token tid on: the exception it ends in ("" when none), belonging, and
\* whether find answered -1 for a token on the way
RECURSIVE belong(_, _, _, _, _, _)
belong(t, tokens, tid, pos, belonging, lost) ==
  IF tid >= Len(tokens) THEN [err |-> "", belonging |-> belonging, lost |-> lost]
  ELSE LET tok == tokens[tid + 1]
           found == find(from(t, pos), tok)
           apr == found + pos
           upto == apr + Len(tok)
       IN IF apr = -1
          THEN [err |-> "AssertionError", belonging |-> belonging, lost |-> TRUE]
          ELSE IF \E j \in pos..(upto - 1) : j >= Len(t)
          THEN [err |-> "IndexError", belonging |-> belonging,
                lost |-> lost \/ found = -1]
          ELSE belong(t, tokens, tid + 1, upto,
                      [j \in 1..Len(t) |->
                         IF pos <= j - 1 /\ j - 1 < upto THEN tid ELSE belonging[j]],
                      lost \/ found = -1)

\* the loop "for ent in entity[sid]" of one sentence: the token intervals
\* (el, er) of its entities, or IndexError
RECURSIVE intervals(_, _, _, _, _)
intervals(t, belonging, ents, pos, acc) ==
  IF ents = << >> THEN [err |-> "", intv |-> acc]
  ELSE LET ent == Head(ents)
           apr == find(from(t, pos), ent) + pos
       IN IF ~in_range(belonging, apr) \/ ~in_range(belonging, apr + Len(ent) - 1)
          THEN [err |-> "IndexError", intv |-> acc]
          ELSE intervals(t, belonging, Tail(ents), apr + Len(ent),
                         Append(acc, <<element(belonging, apr),
                                       element(belonging, apr + Len(ent) - 1)>>))

\* the reduction of the log-probabilities of each entity of one sentence by
\* self.entity_solver, or the ValueError of np.max / np.min on no value
RECURSIVE entity_probs(_, _, _, _)
entity_probs(intv, logprobs, solver, acc) ==
  IF intv = << >> THEN [err |-> "", probs |-> acc]
  ELSE LET window == pyslice(logprobs, Head(intv)[1], Head(intv)[2] + 1)
           values == [i \in 1..Len(window) |-> <<window[i], 1>>]
       IN IF solver_raises(solver, values) THEN [err |-> "ValueError", probs |-> acc]
          ELSE entity_probs(Tail(intv), logprobs, solver,
                            Append(acc, solve(solver, values, TRUE)))

\* entity_intv and entity_prob for the sentences from sid on
RECURSIVE entity_table(_, _, _, _, _, _, _, _)
entity_table(t, sentences, entity, belonging, logprobs, solver, sid, acc) ==
  IF sid >= Len(sentences) THEN [err |-> "", prob |-> acc]
  ELSE LET i == intervals(t, belonging, entity[sid + 1],
                          find(t, sentences[sid + 1]), << >>)
           p == entity_probs(i.intv, logprobs, solver, << >>)
       IN IF i.err # "" THEN [err |-> i.err, prob |-> acc]
          ELSE IF p.err # "" THEN [err |-> p.err, prob |-> acc]
          ELSE entity_table(t, sentences, entity, belonging, logprobs, solver,
                            sid + 1, Append(acc, p.probs))

\* the last loop of EntityRAG.modifier, from sentence sid on
RECURSIVE entity_sentences(_, _, _, _, _, _, _)
entity_sentences(t, sentences, entity, entity_prob, solver, sid, lost) ==
  IF sid >= Len(sentences)
  THEN Verdict("", t, "None", FALSE, -1, << >>, NoReplacement, lost)
  ELSE IF Len(entity_prob[sid + 1]) = 0
  THEN entity_sentences(t, sentences, entity, entity_prob, solver, sid + 1, lost)
  ELSE LET probs == [i \in 1..Len(entity_prob[sid + 1]) |->
                       uncertainty(entity_prob[sid + 1][i])]
       IN IF exceeds(solve(solver, probs, FALSE))
          THEN LET r == replace_over(sentences[sid + 1], 0, probs, entity[sid + 1],
                                     [NoReplacement EXCEPT !.curr = sentences[sid + 1]])
               IN Verdict("", kept_prefix(sentences, sid), r.curr, TRUE, sid, << >>,
                          r, lost)
          ELSE entity_sentences(t, sentences, entity, entity_prob, solver, sid + 1, lost)

\* EntityRAG.modifier(text, tokens, logprobs), entity being what the
\* recognizer finds in the sentences
entity_modifier(t, tokens, logprobs, entity, sentence_solver, entity_solver) ==
  LET sentences == stripped_sentences(t)
      b == belong(t, tokens, 0, 0, [j \in 1..Len(t) |-> -1], FALSE)
      table == entity_table(t, sentences, entity, b.belonging, logprobs,
                            entity_solver, 0, << >>)
  IN IF b.err # ""
     THEN Verdict(b.err, EmptyStr, "None", FALSE, -1, << >>, NoReplacement, b.lost)
     ELSE IF table.err # ""
     THEN Verdict(table.err, EmptyStr, "None", FALSE, -1, << >>, NoReplacement, b.lost)
     ELSE entity_sentences(t, sentences, entity, table.prob, sentence_solver, 0, b.lost)

\* the pairs (sentence_solver, entity_solver) looked at: each varied in turn
SolverPairs ==
  { <<s, "max">> : s \in Solvers } \cup { <<"max", e>> : e \in EntitySolvers }

\* the call EntityRAG.modifier(text, tokens, logprobs) of a generation, the
\* recognizer finding the entities e
entity_call(t, g, e, solvers) ==
  [stage |-> "called", detector |-> "EntityRAG", text |-> t,
   tokens |-> [i \in 1..Len(g) |-> g[i][1]],
   logprobs |-> [i \in 1..Len(g) |-> g[i][2]],
   entity |-> e, sentence_solver |-> solvers[1], entity_solver |-> solvers[2]]

\* EntityRAG.modifier(text, tokens, logprobs)
EntityRAG_modifier ==
  /\ det.stage = "called"
  /\ det.detector = "EntityRAG"
  /\ det' = [stage |-> "returned", detector |-> det.detector, call |-> det,
             out |-> entity_modifier(det.text, det.tokens, det.logprobs, det.entity,
                                     det.sentence_solver, det.entity_solver)]
  /\ UNCHANGED inference_vars

EntityInit ==
  /\ NoInference
  /\ \E t \in EntityTexts, g \in Generated, s \in SolverPairs :
       \E e \in entity_lists(stripped_sentences(t)) : det = entity_call(t, g, e, s)

EntityNext == EntityRAG_modifier

EntitySpec == EntityInit /\ [][EntityNext]_vars

\* C12: whenever a token EntityRAG.modifier looks for in the text from the
\* scan position on is not found there, the call ends in an error
C12_AlignmentErrorsFatal ==
  (Returned /\ det.detector = "EntityRAG" /\ det.out.lost) => det.out.err # ""

(***************************************************************************)
(* The detectors under a reduction policy that is not recognized           *)
(***************************************************************************)
Recognized == {"avg", "max", "min"}

\* the pairs (sentence_solver, entity_solver) one of which is not recognized
UnknownPairs ==
  { s \in SolverPairs : s[1] \notin Recognized \/ s[2] \notin Recognized \cup {"first"} }

SolverInit ==
  /\ NoInference
  /\ \/ \E t \in DetectorTexts, g \in Generated, s \in Solvers \ Recognized :
          det = token_call(t, g, s)
     \/ \E t \in EntityTexts, g \in Generated, s \in UnknownPairs :
          \E e \in entity_lists(stripped_sentences(t)) : det = entity_call(t, g, e, s)

SolverNext ==
  \/ TokenRAG_modifier
  \/ EntityRAG_modifier

SolverSpec == SolverInit /\ [][SolverNext]_vars

AttnVocabulary == { <<"a">>, <<"i", "s">> }

\* per token, the attention it receives and its weight (the entropy, or
\* the log-probability negated)
AttnWeights == { <<1, 0>>, <<1, 2>>, <<2, 2>> }

\* the generated texts given to AttnWeightRAG.modifier
AttnTexts ==
  { << >>, <<"i", "s">>, <<"a", " ", "i", "s">>, <<"i", "s", " ", "a">>,
    <<"a", " ", "a">> }

\* the attention one token may pay to another, as the model reports it
Attention == {0, 1}

\* self.retrieve_keep_ratio, a fraction
retrieve_keep_ratio == <<2, 3>>

\* self.retrieve_keep_top_k and self.retrieve_keep_ratio: one of them set,
\* or neither
Keeps ==
  { KeepTopK,
    [kind |-> "ratio", num |-> retrieve_keep_ratio[1], den |-> retrieve_keep_ratio[2]],
    [kind |-> "none"] }

\* the for loop over range(tid + 1, len(tokens)): the first i whose joined
\* tokens[tl:i] contain the sentence, and tl when there is none
RECURSIVE span_end(_, _, _, _)
span_end(sent, tokens, tl, i) ==
  IF i >= Len(tokens) THEN tl
  ELSE IF contains(join(pyslice(tokens, tl, i), <<" ">>), sent) THEN i
  ELSE span_end(sent, tokens, tl, i + 1)

\* thres: 1 where attns[i - tl] * weight[i] * (tr - tl) is over the
\* threshold, attns being attentions[tl:tr] divided by their sum
thres_of(attentions, weight, tl, tr) ==
  LET attns == pyslice(attentions, tl, tr)
      RECURSIVE sum(_)
      sum(i) == IF i > Len(attns) THEN 0 ELSE attns[i] + sum(i + 1)
  IN [k \in 1..Len(attns) |->
        IF attns[k] * weight[tl + k] * (tr - tl) > hallucination_threshold * sum(1)
        THEN 1 ELSE 0]

\* the loop under check_real_words: thres[i] = 0 where the token is no
\* content word
real_hits(thres, tokens, tl) ==
  [k \in 1..Len(thres) |-> IF is_real_word(tokens[tl + k]) THEN thres[k] ELSE 0]

\* AttnWeightRAG.modifier, the for loop from sentence sid on
RECURSIVE attn_sentences(_, _, _, _, _, _, _, _)
attn_sentences(t, sentences, sid, tid, tokens, attentions, weight, check_real_words) ==
  IF sid >= Len(sentences)
  THEN [hallucination |-> FALSE, prev |-> t, tokens |-> "None", hit |-> "None",
        thres |-> "None"]
  ELSE LET sent == sentences[sid + 1]
           is_last == sid = Len(sentences) - 1
           tl == tid
           tr == IF is_last THEN Len(tokens) ELSE span_end(sent, tokens, tl, tid + 1)
           thres == thres_of(attentions, weight, tl, tr)
       IN IF \E k \in 1..Len(thres) : thres[k] = 1
          THEN [hallucination |-> TRUE,
                prev |-> IF sid = 0 THEN EmptyStr
                         ELSE join(pyslice(sentences, 0, sid), <<" ">>),
                tokens |-> pyslice(tokens, tl, tr),
                hit |-> IF check_real_words THEN real_hits(thres, tokens, tl)
                        ELSE thres,
                thres |-> thres]
          ELSE attn_sentences(t, sentences, sid + 1, IF is_last THEN tid ELSE tr,
                              tokens, attentions, weight, check_real_words)

\* a call AttnWeightRAG.modifier(text, tokens, attentions, weight) with
\* self.check_real_words as given
attn_call(t, g, check_real_words) ==
  [stage |-> "called", detector |-> "AttnWeightRAG", text |-> t,
   tokens |-> [i \in 1..Len(g) |-> g[i][1]],
   attentions |-> [i \in 1..Len(g) |-> g[i][2][1]],
   weight |-> [i \in 1..Len(g) |-> g[i][2][2]],
   check_real_words |-> check_real_words]

\* AttnWeightRAG.modifier(text, tokens, attentions, weight)
AttnWeightRAG_modifier ==
  /\ det.stage = "called"
  /\ det.detector = "AttnWeightRAG"
  /\ det' = [stage |-> "returned", detector |-> det.detector, call |-> det,
             out |-> attn_sentences(det.text, nonempty(sentences_of(det.text)), 0, 0,
                                    det.tokens, det.attentions, det.weight,
                                    det.check_real_words)]
  /\ UNCHANGED inference_vars

\* the real_words branch of AttnWeightRAG.inference after a flagged
\* generation, text being empty: keep_real_words on what the modifier
\* returned, every hit token paying the attention row to the tokens of the
\* forward context
AttnWeightRAG_keep_real_words ==
  /\ det.stage = "returned"
  /\ det.detector = "AttnWeightRAG"
  /\ det.out.hallucination
  /\ LET prev_text == question \o <<" ">> \o EmptyStr \o <<" ">> \o det.out.prev
         n == Len(units(prev_text \o <<" ">> \o join(det.out.tokens, <<" ">>)))
     IN \E row \in [1..n -> Attention], keep \in Keeps :
          det' = [stage |-> "reformulated", detector |-> det.detector,
                  call |-> det.call, out |-> det.out, keep |-> keep,
                  curr_tokens |-> det.out.tokens, curr_hit |-> det.out.hit,
                  kept |-> keep_real_words(prev_text, det.out.tokens, det.out.hit,
                                           [j \in 1..Len(det.out.tokens) |-> row],
                                           keep)]
  /\ UNCHANGED inference_vars

AttnInit ==
  /\ NoInference
  /\ \E t \in AttnTexts, n \in 0..MaxTokens, check_real_words \in BOOLEAN :
       \E g \in [1..n -> AttnVocabulary \X AttnWeights] :
         det = attn_call(t, g, check_real_words)

AttnNext ==
  \/ AttnWeightRAG_modifier
  \/ AttnWeightRAG_keep_real_words

AttnSpec == AttnInit /\ [][AttnNext]_vars

\* keep_real_words has been called and has returned or raised
Reformulated == det.stage = "reformulated"

\* the number of ones in a hit mask: hit_cnt
hit_cnt(hit) == Cardinality({ k \in 1..Len(hit) : hit[k] = 1 })

\* C19: whenever AttnWeightRAG.modifier answers hallucinated, the hit mask
\* it returns is as long as the token slice it returns and holds a 1, and
\* keep_real_words, when it is then called, counts at least one hit, so
\* that it does not divide the forward attention by zero
C19_FlaggedMaskHasHit ==
  /\ (Returned /\ det.detector = "AttnWeightRAG" /\ det.out.hallucination)
       => /\ Len(det.out.hit) = Len(det.out.tokens)
          /\ \E k \in 1..Len(det.out.hit) : det.out.hit[k] = 1
  /\ Reformulated => hit_cnt(det.curr_hit) > 0


\* the positions keep_real_words kept, as a set
kept_positions == { det.kept.kept[k] : k \in 1..Len(det.kept.kept) }

\* position i of the forward context is a hit position of the flagged span
hit_position(i) ==
  i >= det.kept.curr_st /\ det.curr_hit[i - det.kept.curr_st + 1] = 1

\* C15: the query keep_real_words returns has one token per kept position,
\* at most retrieve_keep_top_k of them (under retrieve_keep_ratio alone, at
\* most ratio times the number of candidates); every kept position is a
\* candidate, no candidate left out has a higher forward attention than a
\* kept one, no kept position is a hit position, and the query is the kept
\* tokens in their order in the forward context
C15_RealWordsQuery ==
  (Reformulated /\ det.kept.err = "") =>
    LET r == det.kept
        n == Cardinality(r.real_pairs)
    IN /\ Len(units(r.query)) = Len(r.kept)
       /\ det.keep.kind = "top_k" => Len(r.kept) <= retrieve_keep_top_k
       /\ det.keep.kind = "ratio" => Len(r.kept) * det.keep.den <= det.keep.num * n
       /\ kept_positions \subseteq r.real_pairs
       /\ \A i \in kept_positions, c \in r.real_pairs \ kept_positions :
            ~attention_above(r.forward[c + 1], r.forward[i + 1])
       /\ \A i \in kept_positions : ~hit_position(i)
       /\ \A k \in 1..(Len(r.kept) - 1) : r.kept[k] < r.kept[k + 1]
       /\ r.query = join([k \in 1..Len(r.kept) |-> r.tokens[r.kept[k] + 1]], <<" ">>)

\* keep_real_words has kept two tokens, the later one with the higher
\* forward attention, and has left out a candidate and a content word at a
\* hit position
C15_Witness ==
  /\ Reformulated
  /\ det.kept.err = ""
  /\ hit_cnt(det.curr_hit) > 0
  /\ Len(det.kept.kept) = 2
  /\ attention_above(det.kept.forward[det.kept.kept[2] + 1],
                     det.kept.forward[det.kept.kept[1] + 1])
  /\ det.kept.real_pairs \ kept_positions # {}
  /\ \E i \in 0..(Len(det.kept.tokens) - 1) :
       hit_position(i) /\ is_real_word(det.kept.tokens[i + 1])

====
